---- MODULE Spec2Model ----
(***************************************************************************)
(* TextBox: the abstract generator classes (abstract_generator.py) and the *)
(* T5 sequence-to-sequence model (Seq2Seq/t5.py).                          *)
(*                                                                         *)
(* A Python string is the sequence of its code points, a list is a        *)
(* sequence, a 2-D tensor is a sequence of rows.  Token ids, lengths and   *)
(* logits are integers.  A loss is a real number and is kept exact as the  *)
(* expression that denotes it: [lse, minus] is the sum of the              *)
(* log-sum-exp of the rows of logits in lse, less the integer minus;       *)
(* [num, den] is num / den; [sum, count] is the sum of sum over count.     *)
(***************************************************************************)
EXTENDS Integers, Sequences, FiniteSets, TLC

\* Largest source_max_seq_length / target_max_seq_length a configuration holds.
MaxSeqLength == 4
\* Largest number of source texts an evaluation dataloader serves.
MaxTexts == 3
\* Largest number of examples in one batch.
MaxBatch == 2

(***************************************************************************)
(* Python built-ins used by the code.                                      *)
(***************************************************************************)
\* the separators of str.split(): the whitespace characters
Whitespace == {9, 10, 11, 12, 13, 28, 29, 30, 31, 32, 133, 160, 5760} \cup (8192..8202)
              \cup {8232, 8233, 8239, 8287, 12288}

\* the separator of ' '.join
Space == 32

\* c is one of the code points first, first + step, ... up to last
InRange(c, range) ==
    range[1] <= c /\ c <= range[2] /\ (c - range[1]) % range[3] = 0

\* str.lower() of one character: the runs <<first, last, step, offset>> of code
\* points whose lower case is the code point plus offset
LowerRanges == <<
    <<65,90,1,32>>, <<192,214,1,32>>, <<216,222,1,32>>, <<256,302,2,1>>, <<306,310,2,1>>,
    <<313,327,2,1>>, <<330,374,2,1>>, <<376,376,1,-121>>, <<377,381,2,1>>, <<385,385,1,210>>,
    <<386,388,2,1>>, <<390,390,1,206>>, <<391,391,1,1>>, <<393,394,1,205>>, <<395,395,1,1>>,
    <<398,398,1,79>>, <<399,399,1,202>>, <<400,400,1,203>>, <<401,401,1,1>>, <<403,403,1,205>>,
    <<404,404,1,207>>, <<406,406,1,211>>, <<407,407,1,209>>, <<408,408,1,1>>,
    <<412,412,1,211>>, <<413,413,1,213>>, <<415,415,1,214>>, <<416,420,2,1>>,
    <<422,422,1,218>>, <<423,423,1,1>>, <<425,425,1,218>>, <<428,428,1,1>>, <<430,430,1,218>>,
    <<431,431,1,1>>, <<433,434,1,217>>, <<435,437,2,1>>, <<439,439,1,219>>, <<440,440,1,1>>,
    <<444,444,1,1>>, <<452,452,1,2>>, <<453,453,1,1>>, <<455,455,1,2>>, <<456,456,1,1>>,
    <<458,458,1,2>>, <<459,475,2,1>>, <<478,494,2,1>>, <<497,497,1,2>>, <<498,500,2,1>>,
    <<502,502,1,-97>>, <<503,503,1,-56>>, <<504,542,2,1>>, <<544,544,1,-130>>, <<546,562,2,1>>,
    <<570,570,1,10795>>, <<571,571,1,1>>, <<573,573,1,-163>>, <<574,574,1,10792>>,
    <<577,577,1,1>>, <<579,579,1,-195>>, <<580,580,1,69>>, <<581,581,1,71>>, <<582,590,2,1>>,
    <<880,882,2,1>>, <<886,886,1,1>>, <<895,895,1,116>>, <<902,902,1,38>>, <<904,906,1,37>>,
    <<908,908,1,64>>, <<910,911,1,63>>, <<913,929,1,32>>, <<932,939,1,32>>, <<975,975,1,8>>,
    <<984,1006,2,1>>, <<1012,1012,1,-60>>, <<1015,1015,1,1>>, <<1017,1017,1,-7>>,
    <<1018,1018,1,1>>, <<1021,1023,1,-130>>, <<1024,1039,1,80>>, <<1040,1071,1,32>>,
    <<1120,1152,2,1>>, <<1162,1214,2,1>>, <<1216,1216,1,15>>, <<1217,1229,2,1>>,
    <<1232,1326,2,1>>, <<1329,1366,1,48>>, <<4256,4293,1,7264>>, <<4295,4295,1,7264>>,
    <<4301,4301,1,7264>>, <<5024,5103,1,38864>>, <<5104,5109,1,8>>, <<7312,7354,1,-3008>>,
    <<7357,7359,1,-3008>>, <<7680,7828,2,1>>, <<7838,7838,1,-7615>>, <<7840,7934,2,1>>,
    <<7944,7951,1,-8>>, <<7960,7965,1,-8>>, <<7976,7983,1,-8>>, <<7992,7999,1,-8>>,
    <<8008,8013,1,-8>>, <<8025,8031,2,-8>>, <<8040,8047,1,-8>>, <<8072,8079,1,-8>>,
    <<8088,8095,1,-8>>, <<8104,8111,1,-8>>, <<8120,8121,1,-8>>, <<8122,8123,1,-74>>,
    <<8124,8124,1,-9>>, <<8136,8139,1,-86>>, <<8140,8140,1,-9>>, <<8152,8153,1,-8>>,
    <<8154,8155,1,-100>>, <<8168,8169,1,-8>>, <<8170,8171,1,-112>>, <<8172,8172,1,-7>>,
    <<8184,8185,1,-128>>, <<8186,8187,1,-126>>, <<8188,8188,1,-9>>, <<8486,8486,1,-7517>>,
    <<8490,8490,1,-8383>>, <<8491,8491,1,-8262>>, <<8498,8498,1,28>>, <<8544,8559,1,16>>,
    <<8579,8579,1,1>>, <<9398,9423,1,26>>, <<11264,11311,1,48>>, <<11360,11360,1,1>>,
    <<11362,11362,1,-10743>>, <<11363,11363,1,-3814>>, <<11364,11364,1,-10727>>,
    <<11367,11371,2,1>>, <<11373,11373,1,-10780>>, <<11374,11374,1,-10749>>,
    <<11375,11375,1,-10783>>, <<11376,11376,1,-10782>>, <<11378,11378,1,1>>,
    <<11381,11381,1,1>>, <<11390,11391,1,-10815>>, <<11392,11490,2,1>>, <<11499,11501,2,1>>,
    <<11506,11506,1,1>>, <<42560,42604,2,1>>, <<42624,42650,2,1>>, <<42786,42798,2,1>>,
    <<42802,42862,2,1>>, <<42873,42875,2,1>>, <<42877,42877,1,-35332>>, <<42878,42886,2,1>>,
    <<42891,42891,1,1>>, <<42893,42893,1,-42280>>, <<42896,42898,2,1>>, <<42902,42920,2,1>>,
    <<42922,42922,1,-42308>>, <<42923,42923,1,-42319>>, <<42924,42924,1,-42315>>,
    <<42925,42925,1,-42305>>, <<42926,42926,1,-42308>>, <<42928,42928,1,-42258>>,
    <<42929,42929,1,-42282>>, <<42930,42930,1,-42261>>, <<42931,42931,1,928>>,
    <<42932,42946,2,1>>, <<42948,42948,1,-48>>, <<42949,42949,1,-42307>>,
    <<42950,42950,1,-35384>>, <<42951,42953,2,1>>, <<42960,42960,1,1>>, <<42966,42968,2,1>>,
    <<42997,42997,1,1>>, <<65313,65338,1,32>>, <<66560,66599,1,40>>, <<66736,66771,1,40>>,
    <<66928,66938,1,39>>, <<66940,66954,1,39>>, <<66956,66962,1,39>>, <<66964,66965,1,39>>,
    <<68736,68786,1,64>>, <<71840,71871,1,32>>, <<93760,93791,1,32>>, <<125184,125217,1,34>> >>

\* the cased characters, in runs <<first, last, step>>
CasedRanges == <<
    <<65,90,1>>, <<97,122,1>>, <<170,170,1>>, <<181,181,1>>, <<186,186,1>>, <<192,214,1>>,
    <<216,246,1>>, <<248,442,1>>, <<444,447,1>>, <<452,659,1>>, <<661,696,1>>, <<704,705,1>>,
    <<736,740,1>>, <<837,837,1>>, <<880,883,1>>, <<886,887,1>>, <<890,893,1>>, <<895,895,1>>,
    <<902,904,2>>, <<905,906,1>>, <<908,910,2>>, <<911,929,1>>, <<931,1013,1>>,
    <<1015,1153,1>>, <<1162,1327,1>>, <<1329,1366,1>>, <<1376,1416,1>>, <<4256,4293,1>>,
    <<4295,4295,1>>, <<4301,4301,1>>, <<4304,4346,1>>, <<4349,4351,1>>, <<5024,5109,1>>,
    <<5112,5117,1>>, <<7296,7304,1>>, <<7312,7354,1>>, <<7357,7359,1>>, <<7424,7615,1>>,
    <<7680,7957,1>>, <<7960,7965,1>>, <<7968,8005,1>>, <<8008,8013,1>>, <<8016,8023,1>>,
    <<8025,8031,2>>, <<8032,8061,1>>, <<8064,8116,1>>, <<8118,8124,1>>, <<8126,8126,1>>,
    <<8130,8132,1>>, <<8134,8140,1>>, <<8144,8147,1>>, <<8150,8155,1>>, <<8160,8172,1>>,
    <<8178,8180,1>>, <<8182,8188,1>>, <<8305,8305,1>>, <<8319,8319,1>>, <<8336,8348,1>>,
    <<8450,8450,1>>, <<8455,8455,1>>, <<8458,8467,1>>, <<8469,8469,1>>, <<8473,8477,1>>,
    <<8484,8490,2>>, <<8491,8493,1>>, <<8495,8500,1>>, <<8505,8505,1>>, <<8508,8511,1>>,
    <<8517,8521,1>>, <<8526,8526,1>>, <<8544,8575,1>>, <<8579,8580,1>>, <<9398,9449,1>>,
    <<11264,11492,1>>, <<11499,11502,1>>, <<11506,11507,1>>, <<11520,11557,1>>,
    <<11559,11559,1>>, <<11565,11565,1>>, <<42560,42605,1>>, <<42624,42653,1>>,
    <<42786,42887,1>>, <<42891,42894,1>>, <<42896,42954,1>>, <<42960,42961,1>>,
    <<42963,42965,2>>, <<42966,42969,1>>, <<42997,42998,1>>, <<43000,43002,1>>,
    <<43824,43866,1>>, <<43868,43880,1>>, <<43888,43967,1>>, <<64256,64262,1>>,
    <<64275,64279,1>>, <<65313,65338,1>>, <<65345,65370,1>>, <<66560,66639,1>>,
    <<66736,66771,1>>, <<66776,66811,1>>, <<66928,66938,1>>, <<66940,66954,1>>,
    <<66956,66962,1>>, <<66964,66965,1>>, <<66967,66977,1>>, <<66979,66993,1>>,
    <<66995,67001,1>>, <<67003,67004,1>>, <<67456,67456,1>>, <<67459,67461,1>>,
    <<67463,67504,1>>, <<67506,67514,1>>, <<68736,68786,1>>, <<68800,68850,1>>,
    <<71840,71903,1>>, <<93760,93823,1>>, <<119808,119892,1>>, <<119894,119964,1>>,
    <<119966,119967,1>>, <<119970,119970,1>>, <<119973,119974,1>>, <<119977,119980,1>>,
    <<119982,119993,1>>, <<119995,119997,2>>, <<119998,120003,1>>, <<120005,120069,1>>,
    <<120071,120074,1>>, <<120077,120084,1>>, <<120086,120092,1>>, <<120094,120121,1>>,
    <<120123,120126,1>>, <<120128,120132,1>>, <<120134,120134,1>>, <<120138,120144,1>>,
    <<120146,120485,1>>, <<120488,120512,1>>, <<120514,120538,1>>, <<120540,120570,1>>,
    <<120572,120596,1>>, <<120598,120628,1>>, <<120630,120654,1>>, <<120656,120686,1>>,
    <<120688,120712,1>>, <<120714,120744,1>>, <<120746,120770,1>>, <<120772,120779,1>>,
    <<122624,122633,1>>, <<122635,122654,1>>, <<125184,125251,1>>, <<127280,127305,1>>,
    <<127312,127337,1>>, <<127344,127369,1>> >>

\* the case-ignorable characters, in runs <<first, last, step>>
CaseIgnorableRanges == <<
    <<39,39,1>>, <<46,46,1>>, <<58,58,1>>, <<94,96,2>>, <<168,168,1>>, <<173,175,2>>,
    <<180,180,1>>, <<183,184,1>>, <<688,879,1>>, <<884,885,1>>, <<890,890,1>>, <<900,901,1>>,
    <<903,903,1>>, <<1155,1161,1>>, <<1369,1369,1>>, <<1375,1375,1>>, <<1425,1469,1>>,
    <<1471,1473,2>>, <<1474,1476,2>>, <<1477,1479,2>>, <<1524,1524,1>>, <<1536,1541,1>>,
    <<1552,1562,1>>, <<1564,1564,1>>, <<1600,1600,1>>, <<1611,1631,1>>, <<1648,1648,1>>,
    <<1750,1757,1>>, <<1759,1768,1>>, <<1770,1773,1>>, <<1807,1809,2>>, <<1840,1866,1>>,
    <<1958,1968,1>>, <<2027,2037,1>>, <<2042,2042,1>>, <<2045,2045,1>>, <<2070,2093,1>>,
    <<2137,2139,1>>, <<2184,2184,1>>, <<2192,2193,1>>, <<2200,2207,1>>, <<2249,2306,1>>,
    <<2362,2364,2>>, <<2369,2376,1>>, <<2381,2381,1>>, <<2385,2391,1>>, <<2402,2403,1>>,
    <<2417,2417,1>>, <<2433,2433,1>>, <<2492,2492,1>>, <<2497,2500,1>>, <<2509,2509,1>>,
    <<2530,2531,1>>, <<2558,2558,1>>, <<2561,2562,1>>, <<2620,2620,1>>, <<2625,2626,1>>,
    <<2631,2632,1>>, <<2635,2637,1>>, <<2641,2641,1>>, <<2672,2673,1>>, <<2677,2677,1>>,
    <<2689,2690,1>>, <<2748,2748,1>>, <<2753,2757,1>>, <<2759,2760,1>>, <<2765,2765,1>>,
    <<2786,2787,1>>, <<2810,2815,1>>, <<2817,2817,1>>, <<2876,2876,1>>, <<2879,2881,2>>,
    <<2882,2884,1>>, <<2893,2893,1>>, <<2901,2902,1>>, <<2914,2915,1>>, <<2946,2946,1>>,
    <<3008,3008,1>>, <<3021,3021,1>>, <<3072,3072,1>>, <<3076,3076,1>>, <<3132,3134,2>>,
    <<3135,3136,1>>, <<3142,3144,1>>, <<3146,3149,1>>, <<3157,3158,1>>, <<3170,3171,1>>,
    <<3201,3201,1>>, <<3260,3260,1>>, <<3263,3263,1>>, <<3270,3270,1>>, <<3276,3277,1>>,
    <<3298,3299,1>>, <<3328,3329,1>>, <<3387,3388,1>>, <<3393,3396,1>>, <<3405,3405,1>>,
    <<3426,3427,1>>, <<3457,3457,1>>, <<3530,3530,1>>, <<3538,3540,1>>, <<3542,3542,1>>,
    <<3633,3633,1>>, <<3636,3642,1>>, <<3654,3662,1>>, <<3761,3761,1>>, <<3764,3772,1>>,
    <<3782,3784,2>>, <<3785,3789,1>>, <<3864,3865,1>>, <<3893,3897,2>>, <<3953,3966,1>>,
    <<3968,3972,1>>, <<3974,3975,1>>, <<3981,3991,1>>, <<3993,4028,1>>, <<4038,4038,1>>,
    <<4141,4144,1>>, <<4146,4151,1>>, <<4153,4154,1>>, <<4157,4158,1>>, <<4184,4185,1>>,
    <<4190,4192,1>>, <<4209,4212,1>>, <<4226,4226,1>>, <<4229,4230,1>>, <<4237,4237,1>>,
    <<4253,4253,1>>, <<4348,4348,1>>, <<4957,4959,1>>, <<5906,5908,1>>, <<5938,5939,1>>,
    <<5970,5971,1>>, <<6002,6003,1>>, <<6068,6069,1>>, <<6071,6077,1>>, <<6086,6086,1>>,
    <<6089,6099,1>>, <<6103,6103,1>>, <<6109,6109,1>>, <<6155,6159,1>>, <<6211,6211,1>>,
    <<6277,6278,1>>, <<6313,6313,1>>, <<6432,6434,1>>, <<6439,6440,1>>, <<6450,6450,1>>,
    <<6457,6459,1>>, <<6679,6680,1>>, <<6683,6683,1>>, <<6742,6744,2>>, <<6745,6750,1>>,
    <<6752,6754,2>>, <<6757,6764,1>>, <<6771,6780,1>>, <<6783,6783,1>>, <<6823,6823,1>>,
    <<6832,6862,1>>, <<6912,6915,1>>, <<6964,6966,2>>, <<6967,6970,1>>, <<6972,6972,1>>,
    <<6978,6978,1>>, <<7019,7027,1>>, <<7040,7041,1>>, <<7074,7077,1>>, <<7080,7081,1>>,
    <<7083,7085,1>>, <<7142,7144,2>>, <<7145,7145,1>>, <<7149,7151,2>>, <<7152,7153,1>>,
    <<7212,7219,1>>, <<7222,7223,1>>, <<7288,7293,1>>, <<7376,7378,1>>, <<7380,7392,1>>,
    <<7394,7400,1>>, <<7405,7405,1>>, <<7412,7412,1>>, <<7416,7417,1>>, <<7468,7530,1>>,
    <<7544,7544,1>>, <<7579,7679,1>>, <<8125,8127,2>>, <<8128,8129,1>>, <<8141,8143,1>>,
    <<8157,8159,1>>, <<8173,8175,1>>, <<8189,8190,1>>, <<8203,8207,1>>, <<8216,8217,1>>,
    <<8228,8228,1>>, <<8231,8231,1>>, <<8234,8238,1>>, <<8288,8292,1>>, <<8294,8303,1>>,
    <<8305,8305,1>>, <<8319,8319,1>>, <<8336,8348,1>>, <<8400,8432,1>>, <<11388,11389,1>>,
    <<11503,11505,1>>, <<11631,11631,1>>, <<11647,11647,1>>, <<11744,11775,1>>,
    <<11823,11823,1>>, <<12293,12293,1>>, <<12330,12333,1>>, <<12337,12341,1>>,
    <<12347,12347,1>>, <<12441,12446,1>>, <<12540,12542,1>>, <<40981,40981,1>>,
    <<42232,42237,1>>, <<42508,42508,1>>, <<42607,42610,1>>, <<42612,42621,1>>,
    <<42623,42623,1>>, <<42652,42655,1>>, <<42736,42737,1>>, <<42752,42785,1>>,
    <<42864,42864,1>>, <<42888,42890,1>>, <<42994,42996,1>>, <<43000,43001,1>>,
    <<43010,43010,1>>, <<43014,43014,1>>, <<43019,43019,1>>, <<43045,43046,1>>,
    <<43052,43052,1>>, <<43204,43205,1>>, <<43232,43249,1>>, <<43263,43263,1>>,
    <<43302,43309,1>>, <<43335,43345,1>>, <<43392,43394,1>>, <<43443,43443,1>>,
    <<43446,43449,1>>, <<43452,43453,1>>, <<43471,43471,1>>, <<43493,43494,1>>,
    <<43561,43566,1>>, <<43569,43570,1>>, <<43573,43574,1>>, <<43587,43587,1>>,
    <<43596,43596,1>>, <<43632,43632,1>>, <<43644,43644,1>>, <<43696,43698,2>>,
    <<43699,43700,1>>, <<43703,43704,1>>, <<43710,43711,1>>, <<43713,43713,1>>,
    <<43741,43741,1>>, <<43756,43757,1>>, <<43763,43764,1>>, <<43766,43766,1>>,
    <<43867,43871,1>>, <<43881,43883,1>>, <<44005,44005,1>>, <<44008,44008,1>>,
    <<44013,44013,1>>, <<64286,64286,1>>, <<64434,64450,1>>, <<65024,65039,1>>,
    <<65043,65043,1>>, <<65056,65071,1>>, <<65106,65106,1>>, <<65109,65109,1>>,
    <<65279,65279,1>>, <<65287,65287,1>>, <<65294,65294,1>>, <<65306,65306,1>>,
    <<65342,65344,2>>, <<65392,65392,1>>, <<65438,65439,1>>, <<65507,65507,1>>,
    <<65529,65531,1>>, <<66045,66045,1>>, <<66272,66272,1>>, <<66422,66426,1>>,
    <<67456,67461,1>>, <<67463,67504,1>>, <<67506,67514,1>>, <<68097,68099,1>>,
    <<68101,68102,1>>, <<68108,68111,1>>, <<68152,68154,1>>, <<68159,68159,1>>,
    <<68325,68326,1>>, <<68900,68903,1>>, <<69291,69292,1>>, <<69446,69456,1>>,
    <<69506,69509,1>>, <<69633,69633,1>>, <<69688,69702,1>>, <<69744,69744,1>>,
    <<69747,69748,1>>, <<69759,69761,1>>, <<69811,69814,1>>, <<69817,69818,1>>,
    <<69821,69821,1>>, <<69826,69826,1>>, <<69837,69837,1>>, <<69888,69890,1>>,
    <<69927,69931,1>>, <<69933,69940,1>>, <<70003,70003,1>>, <<70016,70017,1>>,
    <<70070,70078,1>>, <<70089,70092,1>>, <<70095,70095,1>>, <<70191,70193,1>>,
    <<70196,70198,2>>, <<70199,70199,1>>, <<70206,70206,1>>, <<70367,70367,1>>,
    <<70371,70378,1>>, <<70400,70401,1>>, <<70459,70460,1>>, <<70464,70464,1>>,
    <<70502,70508,1>>, <<70512,70516,1>>, <<70712,70719,1>>, <<70722,70724,1>>,
    <<70726,70726,1>>, <<70750,70750,1>>, <<70835,70840,1>>, <<70842,70842,1>>,
    <<70847,70848,1>>, <<70850,70851,1>>, <<71090,71093,1>>, <<71100,71101,1>>,
    <<71103,71104,1>>, <<71132,71133,1>>, <<71219,71226,1>>, <<71229,71231,2>>,
    <<71232,71232,1>>, <<71339,71341,2>>, <<71344,71349,1>>, <<71351,71351,1>>,
    <<71453,71455,1>>, <<71458,71461,1>>, <<71463,71467,1>>, <<71727,71735,1>>,
    <<71737,71738,1>>, <<71995,71996,1>>, <<71998,71998,1>>, <<72003,72003,1>>,
    <<72148,72151,1>>, <<72154,72155,1>>, <<72160,72160,1>>, <<72193,72202,1>>,
    <<72243,72248,1>>, <<72251,72254,1>>, <<72263,72263,1>>, <<72273,72278,1>>,
    <<72281,72283,1>>, <<72330,72342,1>>, <<72344,72345,1>>, <<72752,72758,1>>,
    <<72760,72765,1>>, <<72767,72767,1>>, <<72850,72871,1>>, <<72874,72880,1>>,
    <<72882,72883,1>>, <<72885,72886,1>>, <<73009,73014,1>>, <<73018,73020,2>>,
    <<73021,73023,2>>, <<73024,73029,1>>, <<73031,73031,1>>, <<73104,73105,1>>,
    <<73109,73111,2>>, <<73459,73460,1>>, <<78896,78904,1>>, <<92912,92916,1>>,
    <<92976,92982,1>>, <<92992,92995,1>>, <<94031,94031,1>>, <<94095,94111,1>>,
    <<94176,94177,1>>, <<94179,94180,1>>, <<110576,110579,1>>, <<110581,110587,1>>,
    <<110589,110590,1>>, <<113821,113822,1>>, <<113824,113827,1>>, <<118528,118573,1>>,
    <<118576,118598,1>>, <<119143,119145,1>>, <<119155,119170,1>>, <<119173,119179,1>>,
    <<119210,119213,1>>, <<119362,119364,1>>, <<121344,121398,1>>, <<121403,121452,1>>,
    <<121461,121461,1>>, <<121476,121476,1>>, <<121499,121503,1>>, <<121505,121519,1>>,
    <<122880,122886,1>>, <<122888,122904,1>>, <<122907,122913,1>>, <<122915,122916,1>>,
    <<122918,122922,1>>, <<123184,123197,1>>, <<123566,123566,1>>, <<123628,123631,1>>,
    <<125136,125142,1>>, <<125252,125259,1>>, <<127995,127999,1>>, <<917505,917505,1>>,
    <<917536,917631,1>>, <<917760,917999,1>> >>

Cased(c) == \E r \in 1..Len(CasedRanges) : InRange(c, CasedRanges[r])

CaseIgnorable(c) == \E r \in 1..Len(CaseIgnorableRanges) : InRange(c, CaseIgnorableRanges[r])

\* str.lower() of one character other than capital sigma: one character, but for
\* capital I with dot above, which lowers to i and a combining dot
LowerChar(c) ==
    IF c < 128 THEN (IF 65 <= c /\ c <= 90 THEN <<c + 32>> ELSE <<c>>)
    ELSE IF c = 304 THEN <<105, 775>>
    ELSE IF \E r \in 1..Len(LowerRanges) : InRange(c, LowerRanges[r])
         THEN <<c + LowerRanges[CHOOSE r \in 1..Len(LowerRanges) : InRange(c, LowerRanges[r])][4]>>
         ELSE <<c>>

\* a cased character precedes position i, case-ignorable ones skipped
RECURSIVE CasedBefore(_, _)
CasedBefore(s, i) ==
    IF i < 1 THEN FALSE
    ELSE IF CaseIgnorable(s[i]) THEN CasedBefore(s, i - 1)
    ELSE Cased(s[i])

\* no cased character follows position i, case-ignorable ones skipped
RECURSIVE NoCasedAfter(_, _)
NoCasedAfter(s, i) ==
    IF i > Len(s) THEN TRUE
    ELSE IF CaseIgnorable(s[i]) THEN NoCasedAfter(s, i + 1)
    ELSE ~Cased(s[i])

\* the capital sigma at position i ends a word
FinalSigma(s, i) == CasedBefore(s, i - 1) /\ NoCasedAfter(s, i + 1)

\* list concatenation of a list of lists
RECURSIVE Flatten(_)
Flatten(xss) == IF Len(xss) = 0 THEN <<>> ELSE xss[1] \o Flatten(Tail(xss))

\* str.lower()
Lower(s) ==
    Flatten([i \in 1..Len(s) |->
                IF s[i] = 931 THEN (IF FinalSigma(s, i) THEN <<962>> ELSE <<963>>)
                ELSE LowerChar(s[i])])

\* ' '.join(text)
RECURSIVE Join(_)
Join(text) ==
    IF Len(text) = 0 THEN <<>>
    ELSE IF Len(text) = 1 THEN text[1]
    ELSE text[1] \o <<Space>> \o Join(Tail(text))

\* str.split(): the maximal runs of non-whitespace characters, in order.
RECURSIVE SplitFrom(_, _, _)
SplitFrom(s, i, word) ==
    IF i > Len(s) THEN (IF word = <<>> THEN <<>> ELSE <<word>>)
    ELSE IF s[i] \in Whitespace
         THEN (IF word = <<>> THEN <<>> ELSE <<word>>) \o SplitFrom(s, i + 1, <<>>)
         ELSE SplitFrom(s, i + 1, Append(word, s[i]))

Split(s) == SplitFrom(s, 1, <<>>)

\* sum of a sequence of integers
RECURSIVE Sum(_)
Sum(xs) == IF Len(xs) = 0 THEN 0 ELSE xs[1] + Sum(Tail(xs))

\* a / b, exact
Div(a, b) == [num |-> a, den |-> b]

(***************************************************************************)
(* The wrapped pretrained-model library, as far as the glue code sees it:  *)
(* a tokenizer with a fixed vocabulary, a decoder whose generation and     *)
(* logits depend on weights the code does not control (seed), and the      *)
(* cross-entropy criterion.                                                *)
(***************************************************************************)
\* tokenizer.pad_token_id, and the other special ids of the T5 vocabulary
pad_token_id == 0
eos_token_id == 1
unk_token_id == 2

w_summarize == <<115,117,109,109,97,114,105,122,101,58>>  \* "summarize:"
w_translate == <<116,114,97,110,115,108,97,116,101>>  \* "translate"
w_German == <<71,101,114,109,97,110>>  \* "German"
w_to == <<116,111>>  \* "to"
w_English == <<69,110,103,108,105,115,104,58>>  \* "English:"
w_a == <<97>>  \* "a"
w_Cat == <<67,97,116>>  \* "Cat"
w_on == <<111,110>>  \* "on"
w_zz == <<122,122>>  \* "zz"
w_Aepfel == <<196,112,102,101,108>>  \* "Apfel" with A umlaut

\* The pieces of the vocabulary; piece k has id k + unk_token_id.  w_zz is not in it.
Vocab == <<w_summarize, w_translate, w_German, w_to, w_English, w_a, w_Cat, w_on, w_Aepfel>>

VocabIds == 0..(Len(Vocab) + unk_token_id)

SpecialIds == {pad_token_id, eos_token_id, unk_token_id}

TokenId(word) ==
    IF \E k \in 1..Len(Vocab) : Vocab[k] = word
    THEN unk_token_id + (CHOOSE k \in 1..Len(Vocab) : Vocab[k] = word)
    ELSE unk_token_id

Encode(sequence) == LET words == Split(sequence) IN [k \in 1..Len(words) |-> TokenId(words[k])]

\* tokenizer(sequence, max_length=max_length, padding="max_length", truncation=True):
\* the ids of the pieces, cut to max_length - 1, closed by eos, padded to max_length.
Tokenizer(sequence, max_length) ==
    LET ids == Encode(sequence)
        kept == IF Len(ids) + 1 > max_length THEN SubSeq(ids, 1, max_length - 1) ELSE ids
        closed == Append(kept, eos_token_id)
    IN  [input_ids |-> [j \in 1..max_length |-> IF j <= Len(closed) THEN closed[j] ELSE pad_token_id],
         attention_mask |-> [j \in 1..max_length |-> IF j <= Len(closed) THEN 1 ELSE 0]]

\* the ids of a row that are not special, in order
RECURSIVE Content(_)
Content(row) ==
    IF Len(row) = 0 THEN <<>>
    ELSE IF row[1] \in SpecialIds THEN Content(Tail(row))
    ELSE <<row[1]>> \o Content(Tail(row))

Reverse(xs) == [k \in 1..Len(xs) |-> xs[Len(xs) + 1 - k]]

\* One generated row: the decoder start token (pad), the generated ids, eos; at
\* most max_length ids.  What is generated depends on the weights (seed).
GenerateRow(seed, row, max_length) ==
    LET body == IF seed = 0 THEN Content(row) ELSE Reverse(Content(row))
        full == <<pad_token_id>> \o body \o <<eos_token_id>>
    IN  SubSeq(full, 1, IF Len(full) < max_length THEN Len(full) ELSE max_length)

Longest(rows) ==
    IF Len(rows) = 0 THEN 0
    ELSE CHOOSE n \in {Len(rows[i]) : i \in 1..Len(rows)} :
             \A i \in 1..Len(rows) : Len(rows[i]) <= n

\* decoder.generate(batch_encoded_sequence, max_length=max_length): one row per
\* input row, padded to the longest.
DecoderGenerate(seed, batch, max_length) ==
    LET rows == [i \in 1..Len(batch) |-> GenerateRow(seed, batch[i], max_length)]
        width == Longest(rows)
    IN  [i \in 1..Len(rows) |->
            [j \in 1..width |-> IF j <= Len(rows[i]) THEN rows[i][j] ELSE pad_token_id]]

Piece(id) == Vocab[id - unk_token_id]

\* tokenizer.batch_decode(batch_outputs, skip_special_tokens=True)
DecodeRow(row) == LET ids == Content(row) IN Join([k \in 1..Len(ids) |-> Piece(ids[k])])

BatchDecode(batch_outputs) == [i \in 1..Len(batch_outputs) |-> DecodeRow(batch_outputs[i])]

\* outputs.logits of decoder(input_ids, ..., decoder_input_ids): for every example
\* and decoder position, a logit for every vocabulary id.  The values depend on the
\* weights (seed).
DecoderLogits(seed, input_ids, decoder_input_ids) ==
    [i \in 1..Len(decoder_input_ids) |->
        [j \in 1..Len(decoder_input_ids[i]) |->
            [c \in VocabIds |-> ((seed + i + 2 * j + 3 * c + decoder_input_ids[i][j]) % 4) - 1]]]

\* nn.CrossEntropyLoss(ignore_index=ignore_index, reduction='none')(input, target):
\* for row k, log(sum over c of exp(input[k][c])) - input[k][target[k]], and zero
\* where the target is ignore_index
CrossEntropyLoss(ignore_index, input, target) ==
    [k \in 1..Len(target) |->
        IF target[k] = ignore_index
        THEN [lse |-> <<>>, minus |-> 0]
        ELSE [lse |-> <<input[k]>>, minus |-> input[k][target[k]]]]

\* tensor.sum() of a vector of losses
LossSum(xs) ==
    [lse |-> Flatten([k \in 1..Len(xs) |-> xs[k].lse]),
     minus |-> Sum([k \in 1..Len(xs) |-> xs[k].minus])]

\* tensor.view(-1, ...) of a 2-D tensor: the rows one after the other
View(tensor) == Flatten(tensor)

\* flat.reshape_as(like)
ReshapeAs(flat, like) ==
    [i \in 1..Len(like) |->
        [j \in 1..Len(like[i]) |-> flat[Sum([r \in 1..(i - 1) |-> Len(like[r])]) + j]]]

(***************************************************************************)
(* abstract_generator.py: the classes, what each defines, and method       *)
(* lookup along the base classes.                                          *)
(***************************************************************************)
Classes == {"AbstractModel", "UnconditionalGenerator", "Seq2SeqGenerator",
            "GenerativeAdversarialNet", "AttributeGenerator", "T5"}

\* class X(Base)
Base(cls) ==
    CASE cls = "AbstractModel" -> "nn.Module"
      [] cls = "UnconditionalGenerator" -> "AbstractModel"
      [] cls = "Seq2SeqGenerator" -> "AbstractModel"
      [] cls = "GenerativeAdversarialNet" -> "UnconditionalGenerator"
      [] cls = "AttributeGenerator" -> "AbstractModel"
      [] cls = "T5" -> "Seq2SeqGenerator"

AbstractMethods == {"calculate_loss", "generate", "calculate_nll_test"}

GanMethods == {"calculate_g_train_loss", "calculate_d_train_loss",
               "calculate_g_adversarial_loss", "sample"}

\* Defines with T5's generate missing
Defines_NoGenerate(cls) ==
    CASE cls = "AbstractModel" -> AbstractMethods
      [] cls = "GenerativeAdversarialNet" -> GanMethods
      [] cls = "T5" -> {"calculate_ids", "forward"}
      [] OTHER -> {}

\* the methods a class body defines (constructors aside)
Defines(cls) ==
    CASE cls = "AbstractModel" -> AbstractMethods
      [] cls = "GenerativeAdversarialNet" -> GanMethods
      [] cls = "T5" -> {"generate", "calculate_ids", "forward"}
      [] OTHER -> {}

\* the class whose definition of method a cls object runs
RECURSIVE Resolve(_, _)
Resolve(cls, method) ==
    IF cls = "nn.Module" THEN "nn.Module"
    ELSE IF method \in Defines(cls) THEN cls
    ELSE Resolve(Base(cls), method)

\* what the method as defined in class owner does: the methods of AbstractModel and
\* of GenerativeAdversarialNet are "raise NotImplementedError", and so is the forward
\* every class inherits from nn.Module; nn.Module has none of the other methods
Body(owner, method) ==
    IF owner \in {"AbstractModel", "GenerativeAdversarialNet"} THEN "NotImplementedError"
    ELSE IF owner = "nn.Module"
         THEN (IF method = "forward" THEN "NotImplementedError" ELSE "AttributeError")
    ELSE "implemented"

\* the methods called on the objects
Methods == AbstractMethods \cup GanMethods \cup {"forward"}

(***************************************************************************)
(* Constructors.  An object is a function from the names of the attributes *)
(* that are set to their values; a dataset likewise.                       *)
(***************************************************************************)
hasattr(obj, name) == name \in DOMAIN obj

\* super(AbstractModel, self).__init__(): nn.Module.__init__
Module_init == [training |-> TRUE]

\* UnconditionalGenerator.__init__
UnconditionalGenerator_init(config, dataset) ==
    Module_init @@
    [vocab_size |-> Len(dataset.idx2token),
     batch_size |-> config.train_batch_size,
     device |-> config.device]

\* Seq2SeqVocab with the target size taken from the source vocabulary
Seq2SeqVocab_SourceTwice(dataset) ==
    IF hasattr(dataset, "source_idx2token")
    THEN [source_vocab_size |-> Len(dataset.source_idx2token),
          target_vocab_size |-> Len(dataset.source_idx2token)]
    ELSE [vocab_size |-> Len(dataset.idx2token)]

\* the branch of Seq2SeqGenerator.__init__ on the dataset's vocabularies
Seq2SeqVocab(dataset) ==
    IF hasattr(dataset, "source_idx2token")
    THEN [source_vocab_size |-> Len(dataset.source_idx2token),
          target_vocab_size |-> Len(dataset.target_idx2token)]
    ELSE [vocab_size |-> Len(dataset.idx2token)]

\* Seq2SeqGenerator.__init__
Seq2SeqGenerator_init(config, dataset) ==
    Module_init @@ Seq2SeqVocab(dataset) @@
    [batch_size |-> config.train_batch_size, device |-> config.device]

\* AttributeGenerator.__init__
AttributeGenerator_init(config, dataset) ==
    Module_init @@
    [vocab_size |-> Len(dataset.idx2token),
     attribute_size |-> [k \in 1..Len(dataset.idx2attribute) |-> Len(dataset.idx2attribute[k])],
     attribute_num |-> Len(dataset.idx2attribute),
     batch_size |-> config.train_batch_size,
     device |-> config.device]

summarize_text == <<115,117,109,109,97,114,105,122,101,58,32>>  \* "summarize: "

\* "translate German to English: "
translate_text ==
    <<116,114,97,110,115,108,97,116,101,32,71,101,114,109,97,110,32,116,111,32,69,110,103,108,105,115,104,58,32>>

SupportedTasks == {"summarization", "translation"}

\* TaskText with the final else branch lost: any other task is taken as summarization
TaskText_NoRaise(task_type) ==
    IF task_type = "translation" THEN [t5_task_text |-> translate_text]
    ELSE [t5_task_text |-> summarize_text]

\* TaskText with the translation branch lost
TaskText_NoTranslation(task_type) ==
    IF task_type = "summarization" THEN [t5_task_text |-> summarize_text]
    ELSE [raise |-> "NotImplementedError"]

\* the branch of T5.__init__ on config['task_type']
TaskText(task_type) ==
    IF task_type = "summarization" THEN [t5_task_text |-> summarize_text]
    ELSE IF task_type = "translation" THEN [t5_task_text |-> translate_text]
    ELSE [raise |-> "NotImplementedError"]

\* T5.__init__: the attributes set, or the exception raised
T5_init(config, dataset) ==
    LET base == Seq2SeqGenerator_init(config, dataset) @@
                [max_source_length |-> config.source_max_seq_length,
                 max_target_length |-> config.target_max_seq_length,
                 pretrained_model_path |-> config.pretrained_model_path,
                 padding_token_idx |-> pad_token_id]
        task == TaskText(config.task_type)
    IN  IF hasattr(task, "raise") THEN task ELSE base @@ task

\* AbstractModel(): the class defines no constructor, nn.Module's takes no argument
AbstractModel_init == Module_init

\* cls(config, dataset); AbstractModel takes no config and dataset
Init_of(cls, config, dataset) ==
    CASE cls = "AbstractModel" -> [raise |-> "TypeError"]
      [] cls = "UnconditionalGenerator" -> UnconditionalGenerator_init(config, dataset)
      [] cls = "GenerativeAdversarialNet" -> UnconditionalGenerator_init(config, dataset)
      [] cls = "Seq2SeqGenerator" -> Seq2SeqGenerator_init(config, dataset)
      [] cls = "AttributeGenerator" -> AttributeGenerator_init(config, dataset)
      [] cls = "T5" -> T5_init(config, dataset)

(***************************************************************************)
(* t5.py: the steps of generate, calculate_ids and forward.                *)
(***************************************************************************)
\* the weights T5ForConditionalGeneration.from_pretrained loads from a path
Weights(pretrained_model_path) == IF pretrained_model_path = "t5-small" THEN 0 ELSE 1

\* BatchSequences without the task text
BatchSequences_NoPrefix(slf, source_text) ==
    [k \in 1..Len(source_text) |-> Join(source_text[k])]

\* generate: batch_sequences = [(self.t5_task_text + ' '.join(text)) for text in source_text]
BatchSequences(slf, source_text) ==
    [k \in 1..Len(source_text) |-> slf.t5_task_text \o Join(source_text[k])]

\* generate: the max_length of the tokenizer call
GenerateInputLength(slf) == slf.max_source_length

\* generate: the max_length of the decoder.generate call
GenerateOutputLength(slf) == slf.max_target_length

\* BatchDecodedText without lower()
BatchDecodedText_NoLower(batch_decoded) ==
    [k \in 1..Len(batch_decoded) |-> Split(batch_decoded[k])]

\* generate: batch_decoded_text = [text.lower().split() for text in batch_decoded_sequence]
BatchDecodedText(batch_decoded) ==
    [k \in 1..Len(batch_decoded) |-> Split(Lower(batch_decoded[k]))]

\* generate: generate_corpus.extend(batch_decoded_text)
Extend(corpus, batch_decoded_text) == corpus \o batch_decoded_text

\* After with the decoder call skipped
After_SkipDecoder(at) ==
    CASE at = "tokenizer" -> "batch_decode"
      [] at = "decoder.generate" -> "batch_decode"
      [] at = "batch_decode" -> "extend"
      [] at = "extend" -> "for"

\* generate: the statement that follows the library call at pc in the loop body
After(at) ==
    CASE at = "tokenizer" -> "decoder.generate"
      [] at = "decoder.generate" -> "batch_decode"
      [] at = "batch_decode" -> "extend"
      [] at = "extend" -> "for"

\* calculate_ids: sequence = self.t5_task_text + ' '.join(text)
IdsSequence(slf, text) == slf.t5_task_text \o Join(text)

\* IdsLength with the target length limit
IdsLength_Target(slf) == slf.max_target_length

\* calculate_ids: the max_length of the tokenizer call
IdsLength(slf) == slf.max_source_length

\* calculate_ids(source_text); sequences and max_length are what the tokenizer was
\* called with, one call per text
calculate_ids(slf, source_text) ==
    LET inputs == [k \in 1..Len(source_text) |->
                      Tokenizer(IdsSequence(slf, source_text[k]), IdsLength(slf))]
    IN  [input_ids |-> [k \in 1..Len(source_text) |-> inputs[k].input_ids],
         attention_masks |-> [k \in 1..Len(source_text) |-> inputs[k].attention_mask],
         sequences |-> [k \in 1..Len(source_text) |-> IdsSequence(slf, source_text[k])],
         max_length |-> IdsLength(slf)]

\* target_ids[:, :-1]
DecoderInputIds(target_ids) ==
    [i \in 1..Len(target_ids) |-> SubSeq(target_ids[i], 1, Len(target_ids[i]) - 1)]

\* DecoderTargetIds without the shift
DecoderTargetIds_NoShift(target_ids) ==
    [i \in 1..Len(target_ids) |-> SubSeq(target_ids[i], 1, Len(target_ids[i]) - 1)]

\* target_ids[:, 1:]
DecoderTargetIds(target_ids) ==
    [i \in 1..Len(target_ids) |-> SubSeq(target_ids[i], 2, Len(target_ids[i]))]

\* loss = self.loss(token_logits.view(-1, V), decoder_target_ids.view(-1)); reshape_as
TokenLoss(padding_token_idx, token_logits, decoder_target_ids) ==
    ReshapeAs(CrossEntropyLoss(padding_token_idx, View(token_logits), View(decoder_target_ids)),
              decoder_target_ids)

\* Length counting the padding positions too
Length_WithPadding(padding_token_idx, decoder_target_ids) ==
    [i \in 1..Len(decoder_target_ids) |-> Len(decoder_target_ids[i])]

\* length = (decoder_target_ids != self.padding_token_idx).sum(dim=1)
Length(padding_token_idx, decoder_target_ids) ==
    [i \in 1..Len(decoder_target_ids) |->
        Cardinality({j \in 1..Len(decoder_target_ids[i]) :
                        decoder_target_ids[i][j] # padding_token_idx})]

\* loss = loss.sum(dim=1) / length
ExampleLoss(loss, length) == [i \in 1..Len(loss) |-> Div(LossSum(loss[i]), length[i])]

\* loss.mean() of a vector of losses
Mean(xs) == [sum |-> xs, count |-> Len(xs)]

\* forward(corpus): every value the method computes
forward(slf, corpus) ==
    LET source == calculate_ids(slf, corpus.source_text)
        target == calculate_ids(slf, corpus.target_text)
        decoder_input_ids == DecoderInputIds(target.input_ids)
        decoder_target_ids == DecoderTargetIds(target.input_ids)
        token_logits == DecoderLogits(Weights(slf.pretrained_model_path),
                                      source.input_ids, decoder_input_ids)
        token_loss == TokenLoss(slf.padding_token_idx, token_logits, decoder_target_ids)
        length == Length(slf.padding_token_idx, decoder_target_ids)
        example_loss == ExampleLoss(token_loss, length)
    IN  [corpus |-> corpus,
         input_ids |-> source.input_ids,
         target_ids |-> target.input_ids,
         decoder_input_ids |-> decoder_input_ids,
         decoder_attention_masks |-> DecoderInputIds(target.attention_masks),
         decoder_target_ids |-> decoder_target_ids,
         token_loss |-> token_loss,
         length |-> length,
         example_loss |-> example_loss,
         loss |-> Mean(example_loss)]

\* the tokenizer calls of one calculate_ids, in order
IdsCalls(ids, role, texts) ==
    [k \in 1..Len(ids.sequences) |->
        [fn |-> "tokenizer", by |-> "forward", batch |-> 1, role |-> role,
         texts |-> <<texts[k]>>, sequences |-> <<ids.sequences[k]>>,
         max_length |-> ids.max_length]]

(***************************************************************************)
(* Inputs: configurations, datasets, texts, dataloaders.                   *)
(***************************************************************************)
TaskTypes == SupportedTasks \cup {"dialogue", "unconditional"}

\* where a run takes place: the batch size, the device and the checkpoint it is given
Environments ==
    {[train_batch_size |-> 16, device |-> "cpu", pretrained_model_path |-> "t5-small"],
     [train_batch_size |-> 32, device |-> "cuda", pretrained_model_path |-> "t5-base"]}

Configs ==
    {[task_type |-> t, source_max_seq_length |-> s, target_max_seq_length |-> g] @@ e :
        t \in TaskTypes, s \in 2..MaxSeqLength, g \in 1..MaxSeqLength, e \in Environments}

PairedDataset == [source_idx2token |-> <<"<pad>", "a", "cat", "on">>,
                  target_idx2token |-> <<"<pad>", "chat">>]

SharedDataset == [idx2token |-> <<"<pad>", "a", "cat">>]

AttributeDataset == [idx2token |-> <<"<pad>", "a", "cat">>,
                     idx2attribute |-> << <<"pos", "neg">>, <<"x", "y", "z">> >>]

\* the datasets the toolkit builds for a model of class cls
DatasetsFor(cls) ==
    CASE cls \in {"Seq2SeqGenerator", "T5"} -> {PairedDataset, SharedDataset}
      [] cls = "AttributeGenerator" -> {AttributeDataset}
      [] cls \in {"UnconditionalGenerator", "GenerativeAdversarialNet"} -> {SharedDataset}
      [] OTHER -> {}

\* texts (lists of tokens) of the data
DataTexts == << <<w_a, w_Cat>>, <<w_on>>, <<w_Aepfel, w_zz, w_a>> >>

\* n texts of the data, from the one after offset on
Texts(offset, n) == [k \in 1..n |-> DataTexts[((offset + k - 1) % Len(DataTexts)) + 1]]

\* the batches of size batch_size (the last one may be smaller) over texts
Dataloader(texts, batch_size) ==
    [b \in 1..((Len(texts) + batch_size - 1) \div batch_size) |->
        [source_text |-> SubSeq(texts, (b - 1) * batch_size + 1,
                                IF b * batch_size < Len(texts) THEN b * batch_size ELSE Len(texts))]]

Dataloaders ==
    {Dataloader(Texts(o, n), b) : o \in 0..(Len(DataTexts) - 1), n \in 0..MaxTexts, b \in 1..MaxBatch}

Corpora ==
    {[source_text |-> Texts(o1, n), target_text |-> Texts(o2, n)] :
        o1 \in 0..(Len(DataTexts) - 1), o2 \in 0..(Len(DataTexts) - 1), n \in 1..MaxBatch}

(***************************************************************************)
(* State.                                                                  *)
(***************************************************************************)
VARIABLES
    self,                    \* the model object: its class and the attributes set
    raised,                  \* the exception the last call raised, or "None"
    last_call,               \* the last call: class, method, arguments
    pc,                      \* "idle", or the statement generate is at
    eval_dataloader,         \* generate's argument
    batch_idx,               \* generate: the number of the batch the loop is at
    batch_sequences,         \* generate's locals
    batch_encoded_sequence,
    batch_outputs,
    batch_decoded_sequence,
    generate_corpus,
    calls,                   \* the library calls of the running or last generate / forward
    fwd                      \* the values of the last forward

vars == <<self, raised, last_call, pc, eval_dataloader, batch_idx, batch_sequences,
          batch_encoded_sequence, batch_outputs, batch_decoded_sequence,
          generate_corpus, calls, fwd>>

gen_locals == <<batch_sequences, batch_encoded_sequence, batch_outputs, batch_decoded_sequence>>

NoObject == [cls |-> "NoObject"]

NoForward == [corpus |-> [source_text |-> <<>>, target_text |-> <<>>]]

Call(cls, method, config, dataset) ==
    [cls |-> cls, method |-> method, config |-> config, dataset |-> dataset]

Init ==
    /\ self = NoObject
    /\ raised = "None"
    /\ last_call = Call("NoObject", "none", <<>>, <<>>)
    /\ pc = "idle"
    /\ eval_dataloader = <<>>
    /\ batch_idx = 0
    /\ batch_sequences = <<>>
    /\ batch_encoded_sequence = <<>>
    /\ batch_outputs = <<>>
    /\ batch_decoded_sequence = <<>>
    /\ generate_corpus = <<>>
    /\ calls = <<>>
    /\ fwd = NoForward

(***************************************************************************)
(* Operations.                                                             *)
(***************************************************************************)
\* a call other than generate begins: nothing of the last generate is kept
NoGenerate ==
    /\ eval_dataloader' = <<>>
    /\ generate_corpus' = <<>>
    /\ batch_idx' = 0
    /\ batch_sequences' = <<>>
    /\ batch_encoded_sequence' = <<>>
    /\ batch_outputs' = <<>>
    /\ batch_decoded_sequence' = <<>>

\* cls(config, dataset): the object is built, or the constructor raises
Construct(cls, config, dataset) ==
    /\ pc = "idle"
    /\ self = NoObject
    /\ LET made == Init_of(cls, config, dataset)
       IN  IF hasattr(made, "raise")
           THEN /\ raised' = made.raise
                /\ self' = self
           ELSE /\ raised' = "None"
                /\ self' = [cls |-> cls] @@ made
    /\ last_call' = Call(cls, "__init__", config, dataset)
    /\ UNCHANGED <<pc, eval_dataloader, batch_idx, gen_locals, generate_corpus, calls, fwd>>

\* AbstractModel()
ConstructAbstractModel ==
    /\ pc = "idle"
    /\ self = NoObject
    /\ self' = [cls |-> "AbstractModel"] @@ AbstractModel_init
    /\ raised' = "None"
    /\ last_call' = Call("AbstractModel", "__init__", <<>>, <<>>)
    /\ UNCHANGED <<pc, eval_dataloader, batch_idx, gen_locals, generate_corpus, calls, fwd>>

\* self.method(...) for a method whose definition is "raise NotImplementedError"
CallStub(method) ==
    /\ pc = "idle"
    /\ self # NoObject
    /\ Body(Resolve(self.cls, method), method) = "NotImplementedError"
    /\ raised' = "NotImplementedError"
    /\ last_call' = Call(self.cls, method, <<>>, <<>>)
    /\ NoGenerate
    /\ calls' = <<>>
    /\ fwd' = NoForward
    /\ UNCHANGED <<self, pc>>

\* self.method(...) for a method no class of the object defines
CallMissing(method) ==
    /\ pc = "idle"
    /\ self # NoObject
    /\ Body(Resolve(self.cls, method), method) = "AttributeError"
    /\ raised' = "AttributeError"
    /\ last_call' = Call(self.cls, method, <<>>, <<>>)
    /\ NoGenerate
    /\ calls' = <<>>
    /\ fwd' = NoForward
    /\ UNCHANGED <<self, pc>>

\* T5.generate(eval_dataloader): generate_corpus = []
GenerateCall(dataloader) ==
    /\ pc = "idle"
    /\ self # NoObject
    /\ Resolve(self.cls, "generate") = "T5"
    /\ eval_dataloader' = dataloader
    /\ generate_corpus' = <<>>
    /\ batch_idx' = 0
    /\ batch_sequences' = <<>>
    /\ batch_encoded_sequence' = <<>>
    /\ batch_outputs' = <<>>
    /\ batch_decoded_sequence' = <<>>
    /\ calls' = <<>>
    /\ fwd' = NoForward
    /\ raised' = "None"
    /\ last_call' = Call(self.cls, "generate", <<>>, <<>>)
    /\ pc' = "for"
    /\ UNCHANGED self

\* for batch_data in eval_dataloader: the next batch and its sequences
GenerateNextBatch ==
    /\ pc = "for"
    /\ batch_idx < Len(eval_dataloader)
    /\ batch_idx' = batch_idx + 1
    /\ batch_sequences' = BatchSequences(self, eval_dataloader[batch_idx + 1].source_text)
    /\ pc' = "tokenizer"
    /\ UNCHANGED <<self, raised, last_call, eval_dataloader, batch_encoded_sequence,
                   batch_outputs, batch_decoded_sequence, generate_corpus, calls, fwd>>

\* the dataloader is exhausted: return generate_corpus
GenerateReturn ==
    /\ pc = "for"
    /\ batch_idx >= Len(eval_dataloader)
    /\ pc' = "idle"
    /\ UNCHANGED <<self, raised, last_call, eval_dataloader, batch_idx, gen_locals,
                   generate_corpus, calls, fwd>>

\* batch_inputs = self.tokenizer(batch_sequences, max_length=self.max_source_length, ...)
GenerateTokenizer ==
    /\ pc = "tokenizer"
    /\ batch_encoded_sequence' =
          [k \in 1..Len(batch_sequences) |->
              Tokenizer(batch_sequences[k], GenerateInputLength(self)).input_ids]
    /\ calls' = Append(calls,
          [fn |-> "tokenizer", by |-> "generate", batch |-> batch_idx, role |-> "source",
           texts |-> eval_dataloader[batch_idx].source_text,
           sequences |-> batch_sequences, max_length |-> GenerateInputLength(self)])
    /\ pc' = After(pc)
    /\ UNCHANGED <<self, raised, last_call, eval_dataloader, batch_idx, batch_sequences,
                   batch_outputs, batch_decoded_sequence, generate_corpus, fwd>>

\* batch_outputs = self.decoder.generate(batch_encoded_sequence, max_length=self.max_target_length)
GenerateDecoder ==
    /\ pc = "decoder.generate"
    /\ batch_outputs' = DecoderGenerate(Weights(self.pretrained_model_path),
                                        batch_encoded_sequence, GenerateOutputLength(self))
    /\ calls' = Append(calls,
          [fn |-> "decoder.generate", by |-> "generate", batch |-> batch_idx, role |-> "source",
           texts |-> eval_dataloader[batch_idx].source_text,
           sequences |-> batch_sequences, max_length |-> GenerateOutputLength(self)])
    /\ pc' = After(pc)
    /\ UNCHANGED <<self, raised, last_call, eval_dataloader, batch_idx, batch_sequences,
                   batch_encoded_sequence, batch_decoded_sequence, generate_corpus, fwd>>

\* batch_decoded_sequence = self.tokenizer.batch_decode(batch_outputs, skip_special_tokens=True)
GenerateDecode ==
    /\ pc = "batch_decode"
    /\ batch_decoded_sequence' = BatchDecode(batch_outputs)
    /\ calls' = Append(calls,
          [fn |-> "batch_decode", by |-> "generate", batch |-> batch_idx, role |-> "source",
           texts |-> eval_dataloader[batch_idx].source_text,
           sequences |-> batch_sequences, max_length |-> 0])
    /\ pc' = After(pc)
    /\ UNCHANGED <<self, raised, last_call, eval_dataloader, batch_idx, batch_sequences,
                   batch_encoded_sequence, batch_outputs, generate_corpus, fwd>>

\* generate_corpus.extend([text.lower().split() for text in batch_decoded_sequence])
GenerateExtend ==
    /\ pc = "extend"
    /\ generate_corpus' = Extend(generate_corpus, BatchDecodedText(batch_decoded_sequence))
    /\ pc' = After(pc)
    /\ UNCHANGED <<self, raised, last_call, eval_dataloader, batch_idx, gen_locals, calls, fwd>>

\* T5.forward(corpus)
Forward(corpus) ==
    /\ pc = "idle"
    /\ self # NoObject
    /\ Resolve(self.cls, "forward") = "T5"
    /\ fwd' = forward(self, corpus)
    /\ calls' = IdsCalls(calculate_ids(self, corpus.source_text), "source", corpus.source_text)
                \o IdsCalls(calculate_ids(self, corpus.target_text), "target", corpus.target_text)
    /\ raised' = "None"
    /\ last_call' = Call(self.cls, "forward", <<>>, <<>>)
    /\ NoGenerate
    /\ UNCHANGED <<self, pc>>

Next ==
    \/ \E cls \in Classes, config \in Configs : \E dataset \in DatasetsFor(cls) :
          Construct(cls, config, dataset)
    \/ ConstructAbstractModel
    \/ \E method \in Methods : CallStub(method)
    \/ \E method \in Methods : CallMissing(method)
    \/ \E dataloader \in Dataloaders : GenerateCall(dataloader)
    \/ GenerateNextBatch
    \/ GenerateReturn
    \/ GenerateTokenizer
    \/ GenerateDecoder
    \/ GenerateDecode
    \/ GenerateExtend
    \/ \E corpus \in Corpora : Forward(corpus)

Spec == Init /\ [][Next]_vars

(***************************************************************************)
(* Properties.                                                             *)
(***************************************************************************)
Constructed(cls) == last_call.method = "__init__" /\ last_call.cls = cls

\* C1: constructing T5 raises NotImplementedError exactly when config['task_type']
\* is neither "summarization" nor "translation"; with one of the two the object is
\* built and nothing is raised.
C1_TaskTypeDecidesRaise ==
    Constructed("T5") =>
        IF last_call.config.task_type \in {"summarization", "translation"}
        THEN raised = "None" /\ self # NoObject /\ self.cls = "T5"
        ELSE raised = "NotImplementedError" /\ self = NoObject

C1_Witness ==
    /\ Constructed("T5")
    /\ last_call.config.task_type = "dialogue"
    /\ raised = "NotImplementedError"

UnsupportedTaskAtT5 ==
    /\ Constructed("T5")
    /\ last_call.config.task_type \notin {"summarization", "translation"}

\* C2 as stated: NotImplementedError is raised in one situation only, an unsupported
\* task type at T5 construction.
C2_OnlyAtConstruction == raised = "NotImplementedError" => UnsupportedTaskAtT5

\* C2 as amended: NotImplementedError is raised in exactly two kinds of situation: an
\* unsupported task type at T5 construction, and a call of a method the object's class
\* inherits unimplemented (calculate_loss and calculate_nll_test on every class,
\* generate and forward on every class but T5, the four GAN methods on
\* GenerativeAdversarialNet); the other constructors, T5.generate and T5.forward never
\* raise it.
C2_ConstructionOrStub ==
    raised = "NotImplementedError" <=>
        \/ UnsupportedTaskAtT5
        \/ last_call.method \in {"calculate_loss", "calculate_nll_test"}
        \/ last_call.method \in {"generate", "forward"} /\ last_call.cls # "T5"
        \/ /\ last_call.cls = "GenerativeAdversarialNet"
           /\ last_call.method \in {"calculate_g_train_loss", "calculate_d_train_loss",
                                    "calculate_g_adversarial_loss", "sample"}

C2_Witness ==
    /\ raised = "NotImplementedError"
    /\ last_call.cls = "GenerativeAdversarialNet"
    /\ last_call.method = "sample"

\* C7: a constructed Seq2SeqGenerator has batch_size = config['train_batch_size'] and
\* device = config['device']; with a dataset that has source_idx2token it has
\* source_vocab_size and target_vocab_size, the lengths of the two vocabularies, and no
\* vocab_size; otherwise it has vocab_size, the length of idx2token, and neither of the
\* other two.  No later call changes any of them.
C7_Seq2SeqAttributes ==
    /\ (raised = "None" /\ (Constructed("Seq2SeqGenerator") \/ Constructed("T5"))) =>
          /\ self.batch_size = last_call.config.train_batch_size
          /\ self.device = last_call.config.device
          /\ IF "source_idx2token" \in DOMAIN last_call.dataset
             THEN /\ hasattr(self, "source_vocab_size") /\ hasattr(self, "target_vocab_size")
                  /\ self.source_vocab_size = Len(last_call.dataset.source_idx2token)
                  /\ self.target_vocab_size = Len(last_call.dataset.target_idx2token)
                  /\ ~hasattr(self, "vocab_size")
             ELSE /\ hasattr(self, "vocab_size")
                  /\ self.vocab_size = Len(last_call.dataset.idx2token)
                  /\ ~hasattr(self, "source_vocab_size")
                  /\ ~hasattr(self, "target_vocab_size")
    /\ self.cls \in {"Seq2SeqGenerator", "T5"} =>
          /\ hasattr(self, "batch_size") /\ hasattr(self, "device")
          /\ hasattr(self, "vocab_size") <=> ~hasattr(self, "source_vocab_size")
          /\ hasattr(self, "source_vocab_size") <=> hasattr(self, "target_vocab_size")

C7_Witness ==
    /\ Constructed("Seq2SeqGenerator")
    /\ raised = "None"
    /\ hasattr(self, "source_vocab_size")
    /\ self.source_vocab_size # self.target_vocab_size
    /\ self.batch_size = 32

\* C9: calculate_loss, generate and calculate_nll_test raise NotImplementedError on
\* every object whose class does not override them; T5 overrides generate alone of the
\* three, so calculate_loss and calculate_nll_test raise on a T5 object, and its
\* generate and forward do not.
C9_InheritedStubsRaise ==
    /\ (/\ last_call.method \in {"calculate_loss", "generate", "calculate_nll_test"}
        /\ ~(last_call.cls = "T5" /\ last_call.method = "generate"))
          => raised = "NotImplementedError"
    /\ (last_call.cls = "T5" /\ last_call.method \in {"generate", "forward"})
          => raised = "None"
    /\ (self.cls = "T5" /\ pc = "idle") =>
          /\ ENABLED CallStub("calculate_loss")
          /\ ENABLED CallStub("calculate_nll_test")
          /\ ~ENABLED CallStub("generate")
          /\ ~ENABLED CallStub("forward")

C9_Witness ==
    /\ last_call.cls = "T5"
    /\ last_call.method = "calculate_nll_test"
    /\ raised = "NotImplementedError"
    /\ self.cls = "T5"

ForwardDone == last_call.method = "forward" /\ raised = "None"

\* T5.generate is running or has returned
GenerateRan == last_call.method = "generate" /\ raised = "None"

\* the logits the decoder gave in the last forward
ForwardLogits ==
    DecoderLogits(Weights(self.pretrained_model_path), fwd.input_ids, fwd.decoder_input_ids)

NonPadding(i) ==
    {j \in 1..Len(fwd.decoder_target_ids[i]) : fwd.decoder_target_ids[i][j] # pad_token_id}

\* C3: forward returns the mean over the batch of the per-example losses; the loss of
\* an example is the sum of its per-token losses over the shifted target positions
\* divided by the number of those positions whose id is not the padding id, and a
\* position whose id is the padding id adds zero to the sum.
C3_LengthNormalizedLoss ==
    ForwardDone =>
        LET n == Len(fwd.decoder_target_ids)
            width(i) == Len(fwd.decoder_target_ids[i])
            id(i, j) == fwd.decoder_target_ids[i][j]
        IN  /\ n = Len(fwd.corpus.target_text)
            /\ Len(fwd.token_loss) = n /\ Len(fwd.example_loss) = n
            /\ \A i \in 1..n :
                  /\ Len(fwd.token_loss[i]) = width(i)
                  \* the per-token losses: the criterion at the position, zero at padding
                  /\ \A j \in 1..width(i) :
                        IF j \in NonPadding(i)
                        THEN /\ fwd.token_loss[i][j].lse = <<ForwardLogits[i][j]>>
                             /\ fwd.token_loss[i][j].minus = ForwardLogits[i][j][id(i, j)]
                        ELSE /\ fwd.token_loss[i][j].lse = <<>>
                             /\ fwd.token_loss[i][j].minus = 0
                  \* their sum over the positions
                  /\ fwd.example_loss[i].num.lse =
                        Flatten([j \in 1..width(i) |-> fwd.token_loss[i][j].lse])
                  /\ Len(fwd.example_loss[i].num.lse) = Cardinality(NonPadding(i))
                  /\ fwd.example_loss[i].num.minus =
                        Sum([j \in 1..width(i) |-> fwd.token_loss[i][j].minus])
                  \* over the number of positions that are not padding
                  /\ fwd.example_loss[i].den = Cardinality(NonPadding(i))
                  /\ fwd.example_loss[i].den > 0
            \* the mean over the batch
            /\ fwd.loss.count = n
            /\ fwd.loss.sum = fwd.example_loss

C3_Witness ==
    /\ ForwardDone
    /\ Len(fwd.decoder_target_ids) = 2
    /\ Cardinality(NonPadding(1)) # Cardinality(NonPadding(2))
    /\ \E j \in 1..Len(fwd.decoder_target_ids[1]) : j \notin NonPadding(1)
    /\ fwd.example_loss[1].num.minus # fwd.example_loss[2].num.minus

\* C8: in forward the decoder input and the decoder target are the tokenized target
\* shifted by one: for a target row of padded length L both have length L - 1, the
\* input is positions 0..L-2 and the target positions 1..L-1, so the target at j is
\* the token that follows the input at j.
C8_ShiftedByOne ==
    ForwardDone =>
        /\ Len(fwd.decoder_input_ids) = Len(fwd.target_ids)
        /\ Len(fwd.decoder_target_ids) = Len(fwd.target_ids)
        /\ \A i \in 1..Len(fwd.target_ids) :
              LET L == Len(fwd.target_ids[i])
              IN  /\ L = self.max_source_length
                  /\ Len(fwd.decoder_input_ids[i]) = L - 1
                  /\ Len(fwd.decoder_target_ids[i]) = L - 1
                  /\ \A j \in 1..(L - 1) :
                        /\ fwd.decoder_input_ids[i][j] = fwd.target_ids[i][j]
                        /\ fwd.decoder_target_ids[i][j] = fwd.target_ids[i][j + 1]

C8_Witness ==
    /\ ForwardDone
    /\ Len(fwd.target_ids) = 2
    /\ Len(fwd.target_ids[1]) = 4
    /\ fwd.decoder_target_ids[1] # fwd.decoder_input_ids[1]
    /\ fwd.decoder_target_ids[2][3] = eos_token_id

\* seq is prefix followed by the tokens of text with one space between neighbours
IsPrefixedJoin(seq, prefix, text) ==
    LET P == Len(prefix)
        start(k) == P + Sum([m \in 1..(k - 1) |-> Len(text[m]) + 1])
    IN  /\ Len(seq) = P + Sum([m \in 1..Len(text) |-> Len(text[m])])
                        + (IF Len(text) = 0 THEN 0 ELSE Len(text) - 1)
        /\ \A i \in 1..P : seq[i] = prefix[i]
        /\ \A k \in 1..Len(text) :
              /\ \A i \in 1..Len(text[k]) : seq[start(k) + i] = text[k][i]
              /\ k < Len(text) => seq[start(k) + Len(text[k]) + 1] = Space

\* the calls of fn in the call log, in order
CallsOf(fn, role) ==
    SelectSeq(calls, LAMBDA c : c.fn = fn /\ c.role = role)

\* every source sequence a tokenizer call of the log was handed is the task text
\* followed by the joined tokens of the source text it stands for
SourceSequencesPrefixed ==
    LET tok == CallsOf("tokenizer", "source")
    IN  /\ \A p \in 1..Len(tok) :
              /\ Len(tok[p].sequences) = Len(tok[p].texts)
              /\ \A k \in 1..Len(tok[p].texts) :
                    IsPrefixedJoin(tok[p].sequences[k], self.t5_task_text, tok[p].texts[k])
        /\ GenerateRan =>
              \A p \in 1..Len(tok) : tok[p].texts = eval_dataloader[tok[p].batch].source_text
        /\ ForwardDone =>
              /\ Len(tok) = Len(fwd.corpus.source_text)
              /\ \A p \in 1..Len(tok) : tok[p].texts = <<fwd.corpus.source_text[p]>>

\* the task text is the one config['task_type'] selects
TaskTextSelected ==
    (Constructed("T5") /\ raised = "None") =>
        /\ last_call.config.task_type = "summarization" => self.t5_task_text = summarize_text
        /\ last_call.config.task_type = "translation" => self.t5_task_text = translate_text

TaskTextKept ==
    hasattr(self, "t5_task_text") =>
        /\ hasattr(self', "t5_task_text")
        /\ self'.t5_task_text = self.t5_task_text

\* C4: the task text is selected at construction ("summarize: " for summarization,
\* "translate German to English: " for translation) and no later step changes it;
\* every source sequence generate and forward hand to the tokenizer is that text
\* followed by the source tokens joined with single spaces.
C4_TaskPrefix ==
    /\ [](TaskTextSelected /\ SourceSequencesPrefixed)
    /\ [][TaskTextKept]_vars

C4_Witness ==
    /\ GenerateRan
    /\ pc = "idle"
    /\ self.t5_task_text = translate_text
    /\ Len(CallsOf("tokenizer", "source")) = 2
    /\ Len(calls[1].texts) = 2
    /\ Len(calls[1].texts[1]) = 3

\* the source texts of the dataloader, in dataloader order
SourceTexts == Flatten([b \in 1..Len(eval_dataloader) |-> eval_dataloader[b].source_text])

\* the number of source texts in the first n batches
TextsIn(n) == Sum([b \in 1..n |-> Len(eval_dataloader[b].source_text)])

NonWhitespace(c) == c \notin Whitespace

\* words are the whitespace-separated words of string
IsWordsOf(words, string) ==
    /\ \A w \in 1..Len(words) :
          Len(words[w]) > 0 /\ \A i \in 1..Len(words[w]) : words[w][i] \notin Whitespace
    /\ Flatten(words) = SelectSeq(string, NonWhitespace)
    /\ Len(words) = Cardinality({i \in 1..Len(string) :
                                   /\ string[i] \notin Whitespace
                                   /\ (i = 1 \/ string[i - 1] \in Whitespace)})

\* what the library decodes for the k-th source text
DecodedFor(k) ==
    DecodeRow(GenerateRow(Weights(self.pretrained_model_path),
                          Tokenizer(self.t5_task_text \o Join(SourceTexts[k]),
                                    self.max_source_length).input_ids,
                          self.max_target_length))

\* the batches generate is done with
BatchesDone == IF pc \in {"for", "idle"} THEN batch_idx ELSE batch_idx - 1

\* C5: generate returns one entry per source text: the corpus is empty when the call
\* starts, holds one entry per source text of the batches done so far and, at the
\* return, of all batches; entry k is what the library decodes for the k-th source
\* text in dataloader order, lowercased and split on whitespace.
C5_OneEntryPerSourceText ==
    GenerateRan =>
        /\ Len(generate_corpus) = TextsIn(BatchesDone)
        /\ batch_idx = 0 => generate_corpus = <<>>
        /\ pc = "idle" => Len(generate_corpus) = Len(SourceTexts)
        /\ \A k \in 1..Len(generate_corpus) :
              IsWordsOf(generate_corpus[k], Lower(DecodedFor(k)))

C5_Witness ==
    /\ GenerateRan
    /\ pc = "idle"
    /\ Len(eval_dataloader) = 2
    /\ Len(generate_corpus) = 3
    /\ Len(generate_corpus[1]) = 2
    /\ generate_corpus[3] # generate_corpus[1]
    /\ DecodedFor(1) # Lower(DecodedFor(1))

\* the library calls of one batch, in the order of the loop body
LoopCalls == <<"tokenizer", "decoder.generate", "batch_decode">>

\* the batches whose call of fn is in the log
BatchesWith(fn) == {calls[p].batch : p \in {q \in 1..Len(calls) : calls[q].fn = fn}}

\* C6: generate works through the batches one at a time in dataloader order: for each
\* batch the tokenizer call comes first, then the decoder's generate, then the decode,
\* all before the tokenizer call of the next batch; at most one batch is in progress.
C6_OneBatchAtATime ==
    GenerateRan =>
        /\ \A p \in 1..Len(calls) :
              /\ calls[p].fn = LoopCalls[((p - 1) % 3) + 1]
              /\ calls[p].batch = ((p - 1) \div 3) + 1
              /\ calls[p].texts = eval_dataloader[calls[p].batch].source_text
        /\ Cardinality(BatchesWith("tokenizer") \ BatchesWith("batch_decode")) <= 1
        /\ BatchesWith("tokenizer") = 1..(IF pc = "tokenizer" THEN batch_idx - 1 ELSE batch_idx)
        /\ pc = "tokenizer" => Len(calls) = 3 * (batch_idx - 1)
        /\ pc = "decoder.generate" => Len(calls) = 3 * (batch_idx - 1) + 1
        /\ pc = "batch_decode" => Len(calls) = 3 * (batch_idx - 1) + 2
        /\ pc \in {"extend", "for", "idle"} => Len(calls) = 3 * batch_idx
        /\ pc = "idle" => batch_idx = Len(eval_dataloader)

C6_Witness ==
    /\ GenerateRan
    /\ pc = "decoder.generate"
    /\ batch_idx = 2
    /\ Len(calls) = 4
    /\ Len(eval_dataloader) = 3

\* C10: forward tokenizes the target texts as it does the source texts: every target
\* sequence handed to the tokenizer is the task text followed by the joined target
\* tokens and is padded or cut to source_max_seq_length, so the source and target id
\* tensors have the same width; target_max_seq_length is the length limit of the
\* decoder's generate call in generate and of no call in forward.
C10_TargetTokenizedAsSource ==
    /\ ForwardDone =>
          LET tok == CallsOf("tokenizer", "target")
          IN  /\ Len(tok) = Len(fwd.corpus.target_text)
              /\ \A p \in 1..Len(tok) :
                    /\ tok[p].texts = <<fwd.corpus.target_text[p]>>
                    /\ IsPrefixedJoin(tok[p].sequences[1], self.t5_task_text, tok[p].texts[1])
              /\ \A p \in 1..Len(calls) : calls[p].max_length = self.max_source_length
              /\ Len(fwd.target_ids) = Len(fwd.corpus.target_text)
              /\ Len(fwd.input_ids) = Len(fwd.corpus.source_text)
              /\ \A i \in 1..Len(fwd.target_ids) :
                    /\ Len(fwd.target_ids[i]) = self.max_source_length
                    /\ Len(fwd.input_ids[i]) = self.max_source_length
                    /\ fwd.target_ids[i] =
                          Tokenizer(tok[i].sequences[1], self.max_source_length).input_ids
    /\ GenerateRan =>
          /\ \A p \in 1..Len(calls) :
                /\ calls[p].fn = "tokenizer" => calls[p].max_length = self.max_source_length
                /\ calls[p].fn = "decoder.generate" =>
                      calls[p].max_length = self.max_target_length
          /\ \A i \in 1..Len(batch_outputs) : Len(batch_outputs[i]) <= self.max_target_length

C10_Witness ==
    /\ ForwardDone
    /\ self.max_target_length < self.max_source_length
    /\ self.max_source_length = 4
    /\ Len(fwd.target_ids) = 2
    /\ Len(fwd.corpus.target_text[2]) = 3
    /\ fwd.target_ids[1][4] = pad_token_id

====
